---- MODULE Spec2Model ----
(***************************************************************************)
(* Incremental-decoding core of zonos/backbone/_mlx.py: the rotary table,  *)
(* the per-layer key/value cache and its updater, the causal attention     *)
(* call and the backbone's forward pass over the layers.                   *)
(*                                                                         *)
(* Tensors are modelled by what the claims observe of them.  A projected   *)
(* vector is the record [x, row, j, rot]: the forward call whose           *)
(* hidden_states it was projected from, its batch row and chunk index in   *)
(* that tensor, and the rotary position it was rotated with (NoRot when it *)
(* was never rotated).  Tensor axes are sequences, so python index i is    *)
(* TLA+ index i + 1 and the slice [a:b] is the index set a+1 .. b.         *)
(* The array library's calls (slicing, fancy indexing, expand,             *)
(* scaled_dot_product_attention) have the semantics of the torch API the   *)
(* file is written against.                                                *)
(***************************************************************************)
EXTENDS Integers, Sequences, FiniteSets, TLC

\* ----------------------------------------------------------------- bounds
NumLayers == 2
MaxBatch == 2
MaxSeqLen == 2
MaxSessionSeqLen == 5
MaxChunk == 3
MaxCalls == 3

\* -------------------------------------------------------------- constants
\* precompute_freqs_cis(16384, head_dim)
RotaryCapacity == 16384

\* rot of a vector apply_rotary_emb never touched (the value tensor)
NoRot == -1


VARIABLES
    freqs_cis,         \* the backbone's rotary table: <<>> while the attribute
                       \* is unset, <<n>> for the table of positions 0 .. n-1
    inference_params,  \* the session's InferenceParams
    ret,               \* outcome of the latest MLXZonosBackbone.forward call
    calls,             \* number of forward calls made
    mode,              \* "setup" before a session, "session" within one
    pc                 \* the driver: "ready" to call forward, about to
                       \* "advance" the offsets, "failed" (forward raised),
                       \* "stopped" (it left the session protocol)

vars == <<freqs_cis, inference_params, ret, calls, mode, pc>>

Layers == 0 .. NumLayers - 1

Min(a, b) == IF a <= b THEN a ELSE b

\* t.shape[0] and t.shape[1] of a tensor whose first two axes are sequences
Shape0(t) == Cardinality(DOMAIN t)

Shape1(t) == Cardinality(DOMAIN t[1])

\* ------------------------------------------------------------ rotary table

\* Row p of the table holds (cos(p f_i), sin(p f_i)) for every frequency: it
\* is identified by p, and the table by the number of rows.
precompute_freqs_cis(seq_len) == <<seq_len>>

\* Multiplying by e^{i p f} adds p to the position a vector is rotated by.
RotateVec(vec, p) ==
    [vec EXCEPT !.rot = IF @ = NoRot THEN p ELSE @ + p]

\* x, freqs_cis: (batch, seqlen) matrices of vectors and of table rows
apply_rotary_emb(x, fc) ==
    [b \in DOMAIN x |-> [j \in DOMAIN x[b] |-> RotateVec(x[b][j], fc[b][j])]]

\* ------------------------------------------------------------- the cache

\* What mx.empty leaves in a buffer: contents nothing has specified.  No
\* branch of the code reads them, so one symbol stands for all of them.
JunkVec == [x |-> 0, row |-> -1, j |-> -1, rot |-> NoRot]

\* one (key, value) pair of the cache: axis 2 of the buffer
JunkSlot == [k |-> JunkVec, v |-> JunkVec]

IsWritten(slot) == slot # JunkSlot

\* TransformerBlock.allocate_inference_cache: mx.empty(batch_size, max_seqlen, 2, ...)
BlockAllocate(batch_size, max_seqlen) ==
    [b \in 1 .. batch_size |-> [p \in 1 .. max_seqlen |-> JunkSlot]]

NoView == [layer |-> -1, b0 |-> 0, b1 |-> 0, s0 |-> 0, s1 |-> 0]

UpdateFail(ip, why) ==
    [ok |-> FALSE, why |-> why, params |-> ip, kv |-> NoView]

\* the window written one position late
WriteWindowSkipFirst(kv_cache, k, v, batch_start, batch_end, sequence_start, sequence_end) ==
    [b \in DOMAIN kv_cache |->
        IF b \in batch_start + 1 .. batch_end
        THEN LET row == kv_cache[b]
                 krow == k[b - batch_start]
                 vrow == v[b - batch_start]
             IN  [p \in DOMAIN row |->
                    IF p \in sequence_start + 2 .. sequence_end
                    THEN [k |-> krow[p - sequence_start],
                          v |-> vrow[p - sequence_start]]
                    ELSE row[p]]
        ELSE kv_cache[b]]

\* The window the two slice assignments store k and v into.
WriteWindow(kv_cache, k, v, batch_start, batch_end, sequence_start, sequence_end) ==
    [b \in DOMAIN kv_cache |->
        IF b \in batch_start + 1 .. batch_end
        THEN LET row == kv_cache[b]
                 krow == k[b - batch_start]
                 vrow == v[b - batch_start]
             IN  [p \in DOMAIN row |->
                    IF p \in sequence_start + 1 .. sequence_end
                    THEN [k |-> krow[p - sequence_start],
                          v |-> vrow[p - sequence_start]]
                    ELSE row[p]]
        ELSE kv_cache[b]]

\* only the slice just written is returned
ReturnedViewChunkOnly(layer_idx, batch_start, batch_end, sequence_start, sequence_end) ==
    [layer |-> layer_idx, b0 |-> batch_start, b1 |-> batch_end,
     s0 |-> sequence_start, s1 |-> sequence_end]

\* The slice returned: a view of the layer's buffer.
ReturnedView(layer_idx, batch_start, batch_end, sequence_start, sequence_end) ==
    [layer |-> layer_idx, b0 |-> batch_start, b1 |-> batch_end,
     s0 |-> 0, s1 |-> sequence_end]

\* assert batch_end <= kv_cache.shape[0]
BatchFits(batch_end, kv_cache) == batch_end <= Shape0(kv_cache)

\* the sequence assert with < for <=
SequenceFitsStrict(sequence_end, kv_cache) == sequence_end < Shape1(kv_cache)

\* assert sequence_end <= kv_cache.shape[1]
SequenceFits(sequence_end, kv_cache) == sequence_end <= Shape1(kv_cache)

\* the two assignments made before the capacity asserts
update_kv_cache_write_first(k, v, ip, layer_idx) ==
    IF layer_idx \notin DOMAIN ip.key_value_memory_dict
    THEN UpdateFail(ip, "layer")
    ELSE
      LET kv_cache == ip.key_value_memory_dict[layer_idx]
          batch_start == ip.batch_size_offset
          batch_end == batch_start + Shape0(k)
          sequence_start == ip.seqlen_offset
          sequence_end == sequence_start + Shape1(k)
          written ==
              [ip EXCEPT !.key_value_memory_dict[layer_idx] =
                  WriteWindow(kv_cache, k, v, batch_start, batch_end,
                              sequence_start, sequence_end)]
      IN  IF ~BatchFits(batch_end, kv_cache) THEN UpdateFail(written, "batch")
          ELSE IF ~SequenceFits(sequence_end, kv_cache) THEN UpdateFail(written, "seq")
          ELSE
            [ok |-> TRUE, why |-> "", params |-> written,
             kv |-> ReturnedView(layer_idx, batch_start, batch_end,
                                 sequence_start, sequence_end)]

\* the updater moving seqlen_offset past the chunk it stored
update_kv_cache_advancing(k, v, ip, layer_idx) ==
    IF layer_idx \notin DOMAIN ip.key_value_memory_dict
    THEN UpdateFail(ip, "layer")
    ELSE
      LET kv_cache == ip.key_value_memory_dict[layer_idx]
          batch_start == ip.batch_size_offset
          batch_end == batch_start + Shape0(k)
          sequence_start == ip.seqlen_offset
          sequence_end == sequence_start + Shape1(k)
      IN  IF ~BatchFits(batch_end, kv_cache) THEN UpdateFail(ip, "batch")
          ELSE IF ~SequenceFits(sequence_end, kv_cache) THEN UpdateFail(ip, "seq")
          ELSE
            [ok |-> TRUE, why |-> "",
             params |->
                [ip EXCEPT !.key_value_memory_dict[layer_idx] =
                               WriteWindow(kv_cache, k, v, batch_start, batch_end,
                                           sequence_start, sequence_end),
                           !.seqlen_offset = sequence_end],
             kv |-> ReturnedView(layer_idx, batch_start, batch_end,
                                 sequence_start, sequence_end)]

_update_kv_cache(k, v, ip, layer_idx) ==
    IF layer_idx \notin DOMAIN ip.key_value_memory_dict
    THEN UpdateFail(ip, "layer")
    ELSE
      LET kv_cache == ip.key_value_memory_dict[layer_idx]
          batch_start == ip.batch_size_offset
          batch_end == batch_start + Shape0(k)
          sequence_start == ip.seqlen_offset
          sequence_end == sequence_start + Shape1(k)
      IN  IF ~BatchFits(batch_end, kv_cache) THEN UpdateFail(ip, "batch")
          ELSE IF ~SequenceFits(sequence_end, kv_cache) THEN UpdateFail(ip, "seq")
          ELSE
            [ok |-> TRUE, why |-> "",
             params |->
                [ip EXCEPT !.key_value_memory_dict[layer_idx] =
                    WriteWindow(kv_cache, k, v, batch_start, batch_end,
                                sequence_start, sequence_end)],
             kv |-> ReturnedView(layer_idx, batch_start, batch_end,
                                 sequence_start, sequence_end)]

\* The contents a view shows, read through the dict it aliases.
ViewRows(dict, view) ==
    [b \in 1 .. view.b1 - view.b0 |->
        [p \in 1 .. view.s1 - view.s0 |-> dict[view.layer][view.b0 + b][view.s0 + p]]]

\* ------------------------------------------------------------- attention

\* F.scaled_dot_product_attention: the key positions (0-based, in a key
\* sequence of length S) that the query at index i of L may attend to.  With
\* is_causal the mask is the lower triangle of an L x S matrix, aligned to
\* its upper left corner.
sdpa_visible(i, L, S, is_causal) ==
    IF is_causal THEN 0 .. Min(i, S - 1) ELSE 0 .. S - 1

\* the mask never requested
IsCausalNever(seqlen) == FALSE

\* is_causal=seqlen > 1
IsCausal(seqlen) == seqlen > 1

\* in_proj and the reshapes: the vector of batch row b, chunk index j
Project(hidden_states) ==
    [b \in 1 .. hidden_states.shape[1] |->
        [j \in 1 .. hidden_states.shape[2] |->
            [x |-> hidden_states.x, row |-> b - 1, j |-> j - 1, rot |-> NoRot]]]

\* Attention.forward
AttentionForward(x, ip, fc, layer_idx) ==
    LET seqlen == x.shape[2]
        k == apply_rotary_emb(Project(x), fc)
        v == Project(x)
        u == _update_kv_cache(k, v, ip, layer_idx)
    IN  [ok |-> u.ok, why |-> u.why, params |-> u.params,
         call |-> [kv |-> u.kv, is_causal |-> IsCausal(seqlen)],
         y |-> [x |-> x.x, shape |-> <<x.shape[1], seqlen>>]]

\* TransformerBlock.forward: the residual sums keep the mixer's shape
TransformerBlockForward(x, ip, fc, layer_idx) ==
    AttentionForward(x, ip, fc, layer_idx)

\* ------------------------------------------------------------- backbone

\* MLXZonosBackbone.allocate_inference_cache: the returned dict
AllocateDict(batch_size, max_seqlen) ==
    [i \in Layers |-> BlockAllocate(batch_size, max_seqlen)]

\* the chunk's positions without the per-sample lengths
InputPosChunkOnly(seqlen, lengths_per_sample) ==
    [b \in 1 .. Len(lengths_per_sample) |-> [j \in 1 .. seqlen |-> j - 1]]

\* arange(chunk) + lengths_per_sample.unsqueeze(-1)
InputPos(seqlen, lengths_per_sample) ==
    [b \in 1 .. Len(lengths_per_sample) |->
        [j \in 1 .. seqlen |-> lengths_per_sample[b] + (j - 1)]]

\* a gather that checks no index
GatherUnchecked(table, input_pos) == TRUE

\* self.freqs_cis[input_pos]: every index must be a row of the table
GatherInRange(table, input_pos) ==
    \A b \in DOMAIN input_pos : \A j \in DOMAIN input_pos[b] :
        input_pos[b][j] < table[1]

\* .expand(batch, -1, -1, -1): only a leading axis of size 1 is broadcast
CanExpand(n, batch) == n = batch \/ n = 1

Expand(m, batch) ==
    [b \in 1 .. batch |-> IF Shape0(m) = 1 THEN m[1] ELSE m[b]]

\* the loop going on to the remaining layers after one has failed
RECURSIVE RunLayersKeepGoing(_, _, _, _)
RunLayersKeepGoing(i, hidden_states, ip, fc) ==
    IF i = NumLayers
    THEN [status |-> "ok", why |-> "", done |-> NumLayers, params |-> ip,
          trace |-> <<>>, out |-> hidden_states.shape]
    ELSE
      LET r == AttentionForward(hidden_states, ip, fc, i)
          rest == RunLayersKeepGoing(i + 1, hidden_states, r.params, fc)
      IN  IF ~r.ok
          THEN [status |-> "fail", why |-> r.why, done |-> i, params |-> rest.params,
                trace |-> <<>>, out |-> <<0, 0>>]
          ELSE [rest EXCEPT !.trace = <<r.call>> \o @]

RECURSIVE RunLayers(_, _, _, _)
RunLayers(i, hidden_states, ip, fc) ==
    IF i = NumLayers
    THEN [status |-> "ok", why |-> "", done |-> NumLayers, params |-> ip,
          trace |-> <<>>, out |-> hidden_states.shape]
    ELSE
      LET r == TransformerBlockForward(hidden_states, ip, fc, i)
      IN  IF ~r.ok
          THEN [status |-> "fail", why |-> r.why, done |-> i, params |-> r.params,
                trace |-> <<>>, out |-> <<0, 0>>]
          ELSE LET rest == RunLayers(i + 1, r.y, r.params, fc)
               IN  [rest EXCEPT !.trace = <<r.call>> \o @]

EarlyFail(ip, why) ==
    [status |-> "fail", why |-> why, done |-> 0, params |-> ip,
     trace |-> <<>>, out |-> <<0, 0>>]

\* MLXZonosBackbone.forward
BackboneForward(hidden_states, ip, table) ==
    LET input_pos == InputPos(hidden_states.shape[2], ip.lengths_per_sample)
    IN  IF table = <<>> THEN EarlyFail(ip, "no_table")
        ELSE IF ~GatherInRange(table, input_pos) THEN EarlyFail(ip, "rotary")
        ELSE IF ~CanExpand(Shape0(input_pos), hidden_states.shape[1])
             THEN EarlyFail(ip, "expand")
        ELSE RunLayers(0, hidden_states, ip,
                       Expand(input_pos, hidden_states.shape[1]))

\* ------------------------------------------------------------ the driver

NewParams(lens) ==
    [batch_size_offset |-> 0, seqlen_offset |-> 0, lengths_per_sample |-> lens,
     key_value_memory_dict |-> <<>>]

NoRet ==
    [status |-> "none", why |-> "", done |-> 0, trace |-> <<>>, out |-> <<0, 0>>,
     batch |-> 0, seqlen |-> 0, x |-> 0, table |-> <<>>,
     batch_size_offset |-> 0, seqlen_offset |-> 0, lengths_per_sample |-> <<0>>]

Init ==
    /\ freqs_cis = <<>>
    /\ inference_params = NewParams(<<0>>)
    /\ ret = NoRet
    /\ calls = 0
    /\ mode = "setup"
    /\ pc = "ready"

\* One forward call on a (batch, seqlen, d_model) tensor with the params ip.
Forward(ip, batch, seqlen) ==
    \E r \in {BackboneForward([x |-> calls + 1, shape |-> <<batch, seqlen>>],
                              ip, freqs_cis)} :
        /\ calls' = calls + 1
        /\ inference_params' = r.params
        /\ ret' = [status |-> r.status, why |-> r.why, done |-> r.done,
                   trace |-> r.trace, out |-> r.out,
                   batch |-> batch, seqlen |-> seqlen, x |-> calls + 1,
                   table |-> freqs_cis,
                   batch_size_offset |-> ip.batch_size_offset,
                   seqlen_offset |-> ip.seqlen_offset,
                   lengths_per_sample |-> ip.lengths_per_sample]
        /\ UNCHANGED freqs_cis

\* ---- before a session: any allocation the two allocate methods allow

Shapes == (1 .. MaxBatch) \X (1 .. MaxSeqLen)

\* backbone.allocate_inference_cache, the result stored in the params
SetupAllocate(batch_size, max_seqlen) ==
    /\ mode = "setup"
    /\ pc = "ready"
    /\ freqs_cis' = precompute_freqs_cis(RotaryCapacity)
    /\ inference_params' =
          [inference_params EXCEPT !.key_value_memory_dict =
              AllocateDict(batch_size, max_seqlen)]
    /\ UNCHANGED <<ret, calls, mode, pc>>

\* one block's allocate_inference_cache, the result stored under its index
SetupBlockAllocate(i, batch_size, max_seqlen) ==
    /\ mode = "setup"
    /\ pc = "ready"
    /\ inference_params' =
          [inference_params EXCEPT !.key_value_memory_dict =
              [l \in DOMAIN @ \cup {i} |->
                  IF l = i THEN BlockAllocate(batch_size, max_seqlen) ELSE @[l]]]
    /\ UNCHANGED <<freqs_cis, ret, calls, mode, pc>>

\* a fresh InferenceParams: no layer has a cache yet
SetupNewParams ==
    /\ mode = "setup"
    /\ pc = "ready"
    /\ inference_params' = NewParams(<<0>>)
    /\ UNCHANGED <<freqs_cis, ret, calls, mode, pc>>

\* ---- one generation session

SessionShapes == (1 .. MaxBatch) \X {MaxSessionSeqLen - 1, MaxSessionSeqLen}

Zeros(n) == [b \in 1 .. n |-> 0]

\* allocate, store the dict in a fresh InferenceParams at offset 0
SessionStart(batch_size, max_seqlen) ==
    /\ mode = "setup"
    /\ pc = "ready"
    /\ freqs_cis' = precompute_freqs_cis(RotaryCapacity)
    /\ inference_params' =
          [NewParams(Zeros(batch_size)) EXCEPT !.key_value_memory_dict =
              AllocateDict(batch_size, max_seqlen)]
    /\ mode' = "session"
    /\ UNCHANGED <<ret, calls, pc>>

SessionBatch == Shape0(inference_params.key_value_memory_dict[0])

SessionMaxSeqLen == Shape1(inference_params.key_value_memory_dict[0])

\* the next chunk of the schedule, within the allocated capacity
SessionForward(seqlen) ==
    /\ mode = "session"
    /\ pc = "ready"
    /\ calls < MaxCalls
    /\ inference_params.seqlen_offset + seqlen <= SessionMaxSeqLen
    /\ Forward(inference_params, SessionBatch, seqlen)
    /\ pc' = IF ret'.status = "ok" THEN "advance" ELSE "failed"
    /\ UNCHANGED mode

\* the driver moves the offsets past the chunk it fed
SessionAdvance ==
    /\ mode = "session"
    /\ pc = "advance"
    /\ inference_params' =
          [inference_params EXCEPT
              !.seqlen_offset = @ + ret.seqlen,
              !.lengths_per_sample = [b \in DOMAIN @ |-> @[b] + ret.seqlen]]
    /\ pc' = "ready"
    /\ UNCHANGED <<freqs_cis, ret, calls, mode>>

\* ---- a call outside the protocol: any offsets, any tensor shape

LenVectors == {<<0>>, <<0, 1>>, <<RotaryCapacity - 1, 0>>}

\* The driver sets the offsets as it likes and calls forward; the session is
\* not continued after it.
StrayForward(bo, so, lens, batch, seqlen) ==
    /\ pc = "ready"
    /\ Forward([inference_params EXCEPT !.batch_size_offset = bo,
                                        !.seqlen_offset = so,
                                        !.lengths_per_sample = lens],
               batch, seqlen)
    /\ pc' = "stopped"
    /\ UNCHANGED mode

Next ==
    \/ \E s \in Shapes : SetupAllocate(s[1], s[2])
    \/ \E i \in Layers, s \in Shapes : SetupBlockAllocate(i, s[1], s[2])
    \/ SetupNewParams
    \/ \E s \in SessionShapes : SessionStart(s[1], s[2])
    \/ \E seqlen \in 1 .. MaxChunk : SessionForward(seqlen)
    \/ SessionAdvance
    \/ \E bo \in {0, MaxBatch - 1}, so \in 0 .. MaxSeqLen, lens \in LenVectors,
          batch \in {1, MaxBatch}, seqlen \in 1 .. MaxChunk :
          StrayForward(bo, so, lens, batch, seqlen)

Spec == Init /\ [][Next]_vars

\* ---- sessions long enough to reach the end of the rotary table

LongShapes == SessionShapes \cup {<<1, RotaryCapacity + 1>>}

LongChunks == (1 .. MaxChunk) \cup {RotaryCapacity - 1, RotaryCapacity}

SessionNext ==
    \/ \E s \in LongShapes : SessionStart(s[1], s[2])
    \/ \E seqlen \in LongChunks : SessionForward(seqlen)
    \/ SessionAdvance

SessionSpec == Init /\ [][SessionNext]_vars

\* ------------------------------------------------------------ the claims

\* the latest call, as the claims read it
Dict == inference_params.key_value_memory_dict

Offset == ret.seqlen_offset

\* layers whose cache update returned in the latest call, as trace indexes
Updated == 1 .. Len(ret.trace)

\* what attention at trace index n was handed
Prefix(n) == ViewRows(Dict, ret.trace[n].kv)

\* absolute cache positions the query at chunk index i attends in layer n
Attended(n, i) ==
    LET view == ret.trace[n].kv
    IN  {view.s0 + p :
            p \in sdpa_visible(i, ret.seqlen, view.s1 - view.s0, ret.trace[n].is_causal)}

\* the rotary position of batch row b (0-based) at chunk index j
RowPos(lens, b, j) == (IF Len(lens) = 1 THEN lens[1] ELSE lens[b + 1]) + j

\* C1: every successful cache update returns a prefix of sequence length
\* seqlen_offset + chunk length for the addressed batch rows, and what it
\* shows at every position below seqlen_offset is what the buffer held there
\* before the call.
C1_CachePrefix ==
    [][calls' # calls =>
        \A n \in 1 .. Len(ret'.trace) :
            LET rows == ViewRows(inference_params'.key_value_memory_dict,
                                 ret'.trace[n].kv)
                old == inference_params.key_value_memory_dict[n - 1]
            IN  /\ Len(rows) = ret'.batch
                /\ \A b \in 1 .. Len(rows) :
                      /\ Len(rows[b]) = ret'.seqlen_offset + ret'.seqlen
                      /\ \A p \in 1 .. ret'.seqlen_offset :
                            rows[b][p] = old[ret'.batch_size_offset + b][p]]_vars

\* a third consecutive write of a session, above positions written before it
C1_Witness ==
    /\ mode = "session"
    /\ pc = "advance"
    /\ calls >= 3
    /\ ret.status = "ok"
    /\ Offset >= 2
    /\ \A b \in 1 .. ret.batch : \A p \in 1 .. Offset : IsWritten(Prefix(1)[b][p])

\* C2: when forward reaches a layer whose update precondition is violated
\* (no dict entry, batch window or sequence window beyond the buffer), the
\* call fails at that layer and the layer's buffer, if any, is unchanged.
C2_FailedUpdateWritesNothing ==
    [][calls' # calls /\ ret'.why \notin {"no_table", "rotary", "expand"} =>
        \A l \in Layers :
            LET dict == inference_params.key_value_memory_dict
                violated ==
                    \/ l \notin DOMAIN dict
                    \/ ret'.batch_size_offset + ret'.batch > Len(dict[l])
                    \/ ret'.seqlen_offset + ret'.seqlen > Len(dict[l][1])
            IN  l <= ret'.done /\ violated =>
                    /\ ret'.status = "fail"
                    /\ ret'.done = l
                    /\ DOMAIN inference_params'.key_value_memory_dict = DOMAIN dict
                    /\ l \in DOMAIN dict =>
                          inference_params'.key_value_memory_dict[l] = dict[l]]_vars

\* a sequence-capacity failure on a buffer that already holds written slots
C2_Witness ==
    /\ ret.status = "fail"
    /\ ret.why = "seq"
    /\ ret.done = 0
    /\ IsWritten(Dict[0][1][1])

\* C3: in every layer, the query at chunk index i attends no cache position
\* above seqlen_offset + i and no vector of its own chunk with an index
\* above i; the mask is on exactly for chunks longer than 1, and a chunk of
\* 1 is handed a prefix that ends at seqlen_offset + 1.
C3_NoFuturePosition ==
    \A n \in Updated :
        /\ ret.trace[n].is_causal = (ret.seqlen > 1)
        /\ ret.seqlen = 1 => ret.trace[n].kv.s1 = Offset + 1
        /\ \A i \in 0 .. ret.seqlen - 1 : \A q \in Attended(n, i) :
              /\ q <= Offset + i
              /\ \A b \in 1 .. ret.batch :
                    LET slot == Prefix(n)[b][q + 1]
                    IN  slot.k.x = ret.x => slot.k.j <= i /\ slot.v.j <= i

\* a multi-token chunk processed above earlier context
C3_Witness ==
    /\ ret.status = "ok"
    /\ ret.seqlen > 1
    /\ Offset > 0

\* C4: in every layer, the query at chunk index i attends every cache
\* position 0 .. seqlen_offset + i.
C4_SeesAllPriorContext ==
    \A n \in Updated : \A i \in 0 .. ret.seqlen - 1 :
        (0 .. Offset + i) \subseteq Attended(n, i)

\* C5: a forward call leaves batch_size_offset, seqlen_offset,
\* lengths_per_sample and the dict's key set as they were passed in, and
\* every layer's update addresses the same batch and sequence window.
C5_ForwardKeepsOffsets ==
    [][calls' # calls =>
        /\ inference_params'.batch_size_offset = ret'.batch_size_offset
        /\ inference_params'.seqlen_offset = ret'.seqlen_offset
        /\ inference_params'.lengths_per_sample = ret'.lengths_per_sample
        /\ DOMAIN inference_params'.key_value_memory_dict
              = DOMAIN inference_params.key_value_memory_dict
        /\ \A n \in 1 .. Len(ret'.trace) :
              LET view == ret'.trace[n].kv
              IN  /\ view.layer = n - 1
                  /\ view.b0 = ret'.batch_size_offset
                  /\ view.b1 = ret'.batch_size_offset + ret'.batch
                  /\ view.s1 = ret'.seqlen_offset + ret'.seqlen]_vars

\* a call that ran every layer at a non-zero offset
C5_Witness ==
    /\ ret.status = "ok"
    /\ ret.done = NumLayers
    /\ Offset > 0
    /\ ret.batch_size_offset > 0

\* C6: a forward call made while the rotary table is unset, or addressing a
\* position lengths_per_sample[b] + j >= 16384, fails before any layer runs.
C6_RotaryGuard ==
    (/\ ret.status # "none"
     /\ \/ ret.table = <<>>
        \/ \E b \in 1 .. Len(ret.lengths_per_sample) : \E j \in 0 .. ret.seqlen - 1 :
              ret.lengths_per_sample[b] + j >= RotaryCapacity)
    => /\ ret.status = "fail"
       /\ ret.done = 0
       /\ ret.trace = <<>>

\* an out-of-table position met with every layer's cache able to take the chunk
C6_Witness ==
    /\ ret.why = "rotary"
    /\ Layers \subseteq DOMAIN Dict
    /\ \A l \in Layers :
          /\ ret.batch_size_offset + ret.batch <= Len(Dict[l])
          /\ Offset + ret.seqlen <= Len(Dict[l][1])

\* C7 as stated: every forward call of a session succeeds.
C7_EverySessionCallSucceeds ==
    mode = "session" /\ ret.status # "none" => ret.status = "ok"

\* C7, amended: in a session every forward call whose chunk ends at or below
\* position 16384 succeeds with an output of the input's batch and chunk
\* length, and each call's positions lie above the previous call's.
C7_SessionWithinRotary ==
    [][calls' # calls =>
        /\ ret'.seqlen_offset + ret'.seqlen <= RotaryCapacity =>
              /\ ret'.status = "ok"
              /\ ret'.out = <<ret'.batch, ret'.seqlen>>
        /\ ret.status # "none" =>
              \A b \in 1 .. ret'.batch :
                  RowPos(ret'.lengths_per_sample, b - 1, 0)
                      > RowPos(ret.lengths_per_sample, b - 1, ret.seqlen - 1)]_vars

\* a prefill and two single-token steps, the last one at offset 4
C7_Witness ==
    /\ mode = "session"
    /\ calls = 3
    /\ ret.status = "ok"
    /\ ret.seqlen = 1
    /\ ret.out = <<ret.batch, 1>>
    /\ Offset = 4

\* C8 as stated: a forward call that fails has modified no layer's buffer.
C8_FailedForwardWritesNothing ==
    [][calls' # calls /\ ret'.status = "fail" =>
        inference_params'.key_value_memory_dict
            = inference_params.key_value_memory_dict]_vars

\* C8, amended: a forward call that fails at layer i leaves the buffers of
\* layers i and above unchanged, and has written the addressed window (and
\* nothing else) in each of the layers below i.
C8_FailedForwardPrefixWritten ==
    [][calls' # calls /\ ret'.status = "fail" =>
        LET old == inference_params.key_value_memory_dict
            new == inference_params'.key_value_memory_dict
            bo == ret'.batch_size_offset
            so == ret'.seqlen_offset
        IN  /\ DOMAIN new = DOMAIN old
            /\ \A l \in DOMAIN old :
                  IF l >= ret'.done THEN new[l] = old[l]
                  ELSE \A b \in 1 .. Len(old[l]) : \A p \in 1 .. Len(old[l][b]) :
                          IF /\ b \in bo + 1 .. bo + ret'.batch
                             /\ p \in so + 1 .. so + ret'.seqlen
                          THEN /\ new[l][b][p].k.x = ret'.x
                               /\ new[l][b][p].v.x = ret'.x
                          ELSE new[l][b][p] = old[l][b][p]]_vars

\* layer 0 written, layer 1 refused
C8_Witness ==
    /\ ret.status = "fail"
    /\ ret.done = 1
    /\ IsWritten(Dict[0][ret.batch_size_offset + 1][Offset + 1])

\* C9: while the driver keeps to the session protocol, every slot of every
\* returned prefix has been written; and the updater returns the positions
\* below seqlen_offset whatever they hold, the whole of 0 .. seqlen_offset +
\* chunk length.
C9_PrefixWritten ==
    \A n \in Updated :
        /\ ret.trace[n].kv.s0 = 0
        /\ ret.trace[n].kv.s1 = Offset + ret.seqlen
        /\ mode = "session" /\ pc # "stopped" =>
              \A b \in 1 .. ret.batch : \A p \in 1 .. Offset + ret.seqlen :
                  IsWritten(Prefix(n)[b][p])

\* after a session step, a call that skips a position is handed the
\* never-written slot in its prefix
C9_Witness ==
    /\ mode = "session"
    /\ pc = "stopped"
    /\ calls >= 2
    /\ ret.status = "ok"
    /\ \E b \in 1 .. ret.batch : \E p \in 1 .. Offset : ~IsWritten(Prefix(1)[b][p])

\* C10: the key a call stores in slot seqlen_offset + j of batch row b is
\* rotated by position lengths_per_sample[b] + j and the value is not
\* rotated; while the driver keeps to the session protocol every written
\* slot p of every layer holds a key rotated by p.
C10_SlotMatchesRotary ==
    /\ \A n \in Updated : \A b \in 1 .. ret.batch : \A j \in 0 .. ret.seqlen - 1 :
          LET slot == Dict[n - 1][ret.batch_size_offset + b][Offset + j + 1]
          IN  /\ slot.k.rot = RowPos(ret.lengths_per_sample, b - 1, j)
              /\ slot.v.rot = NoRot
              /\ slot.k.x = ret.x /\ slot.k.row = b - 1 /\ slot.k.j = j
    /\ mode = "session" /\ pc # "stopped" =>
          \A l \in DOMAIN Dict : \A b \in 1 .. Len(Dict[l]) :
              \A p \in 1 .. Len(Dict[l][b]) :
                  IsWritten(Dict[l][b][p]) => Dict[l][b][p].k.rot = p - 1

\* keys of three session steps in place, the last written at offset > 0
C10_Witness ==
    /\ mode = "session"
    /\ pc = "ready"
    /\ calls = MaxCalls
    /\ ret.status = "ok"
    /\ \A l \in Layers : IsWritten(Dict[l][1][Offset + 1])

====
